---- MODULE Spec2Model ----
(***************************************************************************)
(* A model of the symbol-art-vault server (src/server/index.js) and of the *)
(* PostgreSQL schema it runs on (src/unnamed/part_000).                    *)
(*                                                                         *)
(* Strings are sequences of atoms.  An atom is one character: a comma, a   *)
(* blank, a digit, a sign, or a letter-like atom that stands for a block   *)
(* of other characters ("pso2", "title").  Everything the handlers do to   *)
(* strings (split, trim, includes, Number) is computed on these sequences. *)
(***************************************************************************)
EXTENDS Integers, Sequences, FiniteSets, Bags, TLC

VARIABLES
    db,       \* the committed contents of the store: tables and sequences
    conn,     \* per connection of the pool: the statement in flight, if any
    last,     \* the most recent completed request and its response
    normIn,   \* tag normalisation: the raw input handed to the handler
    normOut   \* tag normalisation: the tag array handed to the store

vars == <<db, conn, last, normIn, normOut>>

----------------------------------------------------------------------------
(* JavaScript values and string functions                                  *)

\* JS undefined / SQL NULL: a one-atom value no real string uses.
Undefined == <<"undefined">>

\* `!x` on a string or undefined: undefined and '' are falsy.
Falsy(x) == x = Undefined \/ x = <<>>

IsSpace(ch) == ch = " "

RECURSIVE TrimStart(_)
TrimStart(s) ==
    IF s # <<>> /\ IsSpace(Head(s)) THEN TrimStart(Tail(s)) ELSE s

RECURSIVE TrimEnd(_)
TrimEnd(s) ==
    IF s # <<>> /\ IsSpace(s[Len(s)])
    THEN TrimEnd(SubSeq(s, 1, Len(s) - 1))
    ELSE s

\* String.prototype.trim
Trim(s) == TrimEnd(TrimStart(s))

\* String.prototype.split with a one-character separator: the pieces between
\* separators, empty pieces kept; a string without separator (the empty
\* string too) gives one piece.
RECURSIVE Split(_, _)
Split(s, sep) ==
    IF \A i \in 1..Len(s) : s[i] # sep
    THEN <<s>>
    ELSE LET i == CHOOSE k \in 1..Len(s) :
                     s[k] = sep /\ \A j \in 1..(k - 1) : s[j] # sep
         IN  <<SubSeq(s, 1, i - 1)>> \o Split(SubSeq(s, i + 1, Len(s)), sep)

\* Array.prototype.includes
Includes(arr, x) == \E i \in 1..Len(arr) : arr[i] = x

\* const tags = rawTags.split(',').map(e => e.trim());   (upload)
UploadTags(rawTags) ==
    LET pieces == Split(rawTags, ",")
    IN  [i \in 1..Len(pieces) |-> Trim(pieces[i])]

\* const tags = rawTags.map(e => e.trim());              (edit)
EditTags(rawTags) == [i \in 1..Len(rawTags) |-> Trim(rawTags[i])]

Digits == <<"0", "1", "2", "3", "4", "5", "6", "7", "8", "9">>

IsDigit(ch) == \E i \in 1..10 : Digits[i] = ch

DigitVal(ch) == (CHOOSE i \in 1..10 : Digits[i] = ch) - 1

RECURSIVE DigitsValue(_, _)
DigitsValue(s, acc) ==
    IF s = <<>> THEN acc ELSE DigitsValue(Tail(s), acc * 10 + DigitVal(Head(s)))

\* A decimal integer literal: an optional minus sign and at least one digit.
IsIntLiteral(s) ==
    LET body == IF s # <<>> /\ Head(s) = "-" THEN Tail(s) ELSE s
    IN  body # <<>> /\ \A i \in 1..Len(body) : IsDigit(body[i])

RECURSIVE StripZeros(_)
StripZeros(s) ==
    IF Len(s) > 1 /\ Head(s) = "0" THEN StripZeros(Tail(s)) ELSE s

\* Order of two magnitudes written without leading zeros: by length, then
\* digit by digit.  (Values beyond 32 bits are compared as written.)
RECURSIVE DigitsLeq(_, _)
DigitsLeq(a, b) ==
    IF Len(a) # Len(b) THEN Len(a) < Len(b)
    ELSE IF a = <<>> THEN TRUE
    ELSE IF Head(a) # Head(b) THEN DigitVal(Head(a)) < DigitVal(Head(b))
    ELSE DigitsLeq(Tail(a), Tail(b))

\* Number(id): the sign and magnitude of a decimal literal, NaN for anything
\* else the model's route parameters can hold.
ToNumber(s) ==
    IF ~IsIntLiteral(s) THEN [nan |-> TRUE]
    ELSE LET neg == Head(s) = "-"
             mag == StripZeros(IF neg THEN Tail(s) ELSE s)
         IN  [nan |-> FALSE, neg |-> neg /\ mag # <<"0">>, mag |-> mag]

\* n >= k and n <= k for a number n and a magnitude k > 0; false for NaN.
NumGeq(n, k) == ~n.nan /\ ~n.neg /\ DigitsLeq(k, n.mag)
NumLeq(n, k) == ~n.nan /\ (n.neg \/ DigitsLeq(n.mag, k))

\* 2147483647 and 2147483648 as written.
MaxInt32Digits == <<"2", "1", "4", "7", "4", "8", "3", "6", "4", "7">>
MinInt32Digits == <<"2", "1", "4", "7", "4", "8", "3", "6", "4", "8">>

\* The value of a literal that fits the 32-bit range.
IntLiteralValue(s) ==
    IF Head(s) = "-" THEN 0 - DigitsValue(Tail(s), 0) ELSE DigitsValue(s, 0)

----------------------------------------------------------------------------
(* The store: the tables and sequences of the schema                       *)

\* Bounds of the model: how many values each sequence may hand out.
MaxPosts == 2
MaxUsers == 2

\* The user anonymous uploads are attributed to.
AnonymousUserId == 1

Conns == {"c1", "c2"}

\* The store after the schema is loaded: the user the dump creates, its
\* sequence value, and an empty catalogue.
InitialStore ==
    [ files    |-> {},          \* rows [fileId]
      posts    |-> {},          \* rows [postId, fileId, userId, createdAt, title, description]
      tags     |-> EmptyBag,    \* rows [tagName], as a bag of names
      taggings |-> <<>>,        \* rows [tagName, postId], in heap order
      users    |-> {[userId |-> 1, username |-> <<"admin">>]},
      fileSeq  |-> 0,
      postSeq  |-> 0,
      userSeq  |-> 1,
      now      |-> 0 ]

PostIds(d) == {p.postId : p \in d.posts}
FileIds(d) == {f.fileId : f \in d.files}
UserIds(d) == {u.userId : u \in d.users}
TagNames(d) == BagToSet(d.tags)

PostById(d, id) == CHOOSE p \in d.posts : p.postId = id

\* The tagName values of the taggings rows of one post, in heap order:
\* array_agg("tagName") ... group by "postId".
RECURSIVE TagArray(_, _)
TagArray(rows, postId) ==
    IF rows = <<>> THEN <<>>
    ELSE (IF Head(rows).postId = postId THEN <<Head(rows).tagName>> ELSE <<>>)
         \o TagArray(Tail(rows), postId)

\* The posts that have a row in "tag_arrays": group by yields no group for
\* a post without taggings.
TaggedPostIds(d) == {d.taggings[i].postId : i \in 1..Len(d.taggings)}

----------------------------------------------------------------------------
(* Statements in flight.  The upload and the edit are one SQL statement    *)
(* each; its rows stay private to the statement until it commits.          *)

Idle == [phase |-> "idle"]

\* The rows of "posts" with "postId" = $3.
PostsWithId(d, postId) == {p \in d.posts : p.postId = postId}

\* The statement of POST /api/upload with its parameters $6..$9; nextval and
\* now() are evaluated for the rows it is about to insert.
UploadStmt(d, userId, title, description, tags) ==
    [ phase |-> "run", op |-> "upload", error |-> "none",
      userId |-> userId, title |-> title, description |-> description,
      tags |-> tags,
      fileId |-> d.fileSeq + 1, postId |-> d.postSeq + 1, createdAt |-> d.now + 1,
      i |-> 1, ins |-> {} ]

\* The statement of PUT /api/posts/edit/:id with its parameters $1..$4 and
\* the snapshot it runs on: `seen` is the post row the statement's snapshot
\* shows for $3 (update, delete and the final select read the snapshot).
EditStmt(d, title, description, postId, tags) ==
    [ phase |-> "run", op |-> "edit", error |-> "none",
      title |-> title, description |-> description, postId |-> postId,
      tags |-> tags, seen |-> PostsWithId(d, postId),
      i |-> 1, ins |-> {} ]

\* Sequences and the clock move when the statement starts and are not
\* rolled back.
Started(d, tx) ==
    IF tx.op = "upload"
    THEN [d EXCEPT !.fileSeq = tx.fileId, !.postSeq = tx.postId, !.now = tx.createdAt]
    ELSE d

\* insert into "tags" ... on conflict ("tagName") do nothing, for the row
\* the statement is at: "skip" when the name is already there (committed, or
\* inserted earlier by this statement), "insert" otherwise.  tags_pkey is
\* the arbiter index; without the on conflict clause it raises the error.
UpsertPlainInsert(d, tx) ==
    IF tx.tags[tx.i] \in TagNames(d) \cup tx.ins THEN "unique_violation" ELSE "insert"
UpsertRow(d, tx) ==
    IF tx.tags[tx.i] \in TagNames(d) \cup tx.ins THEN "skip" ELSE "insert"

\* The statement after the upsert of its i-th tag name.
AfterUpsert(d, tx) ==
    CASE UpsertRow(d, tx) = "skip"   -> [tx EXCEPT !.i = @ + 1]
      [] UpsertRow(d, tx) = "insert" -> [tx EXCEPT !.i = @ + 1, !.ins = @ \cup {tx.tags[tx.i]}]
      [] OTHER -> [tx EXCEPT !.error = UpsertRow(d, tx)]

\* The upsert run over all the rows of unnest($9) with no other statement
\* in flight.
RECURSIVE AllUpserted(_, _)
AllUpserted(d, tx) ==
    IF tx.i > Len(tx.tags) \/ tx.error # "none" THEN tx
    ELSE AllUpserted(d, AfterUpsert(d, tx))

\* NOT NULL on posts.title: the inserted row, or the row the update sets.
NotNullViolated(d, tx) ==
    /\ tx.title = Undefined
    /\ tx.op = "edit" => tx.seen # {}

\* The foreign keys of the rows the statement wrote, checked when it ends:
\* posts_userId_fkey for the upload (posts_fileId_fkey holds by "new_file"),
\* taggings_postId_fkey for the edit, taggings_tagName_fkey for both.
ForeignKeysUnchecked(d, tx) == FALSE
ForeignKeyViolated(d, tx) ==
    \/ tx.op = "upload" /\ tx.userId \notin UserIds(d)
    \/ tx.op = "edit" /\ tx.tags # <<>> /\ tx.postId \notin PostIds(d)
    \/ \E i \in 1..Len(tx.tags) : tx.tags[i] \notin TagNames(d) \cup tx.ins

\* The error that ends the statement, "none" when it commits.
StmtError(d, tx) ==
    IF tx.error # "none" THEN tx.error
    ELSE IF NotNullViolated(d, tx) THEN "not_null_violation"
    ELSE IF ForeignKeyViolated(d, tx) THEN "foreign_key_violation"
    ELSE "none"

\* insert into "taggings" select "postId", unnest($tags): one row per
\* element of the array.
NewTaggings(tx) == [i \in 1..Len(tx.tags) |-> [tagName |-> tx.tags[i], postId |-> tx.postId]]

\* delete from "taggings" where "postId" = $3: the rows of the snapshot.
\* (A post the snapshot does not show has no rows in it.)
TaggingsDeleteAll(d, tx) == <<>>
TaggingsAfterDelete(d, tx) ==
    IF tx.seen = {} THEN d.taggings
    ELSE SelectSeq(d.taggings, LAMBDA row : row.postId # tx.postId)

\* The store after the statement commits.
Committed(d, tx) ==
    IF tx.op = "upload"
    THEN [d EXCEPT
            !.files = @ \cup {[fileId |-> tx.fileId]},
            !.posts = @ \cup {[postId |-> tx.postId, fileId |-> tx.fileId,
                               userId |-> tx.userId, createdAt |-> tx.createdAt,
                               title |-> tx.title, description |-> tx.description]},
            !.tags = @ (+) SetToBag(tx.ins),
            !.taggings = @ \o NewTaggings(tx)]
    ELSE [d EXCEPT
            !.posts = {IF p.postId = tx.postId /\ tx.seen # {}
                       THEN [p EXCEPT !.title = tx.title, !.description = tx.description]
                       ELSE p : p \in @},
            !.tags = @ (+) SetToBag(tx.ins),
            !.taggings = TaggingsAfterDelete(d, tx) \o NewTaggings(tx)]

\* The store after the statement fails: a statement is atomic, none of its
\* rows stays.
RolledBackKeepsFile(d, tx) ==
    IF tx.op = "upload" THEN [d EXCEPT !.files = @ \cup {[fileId |-> tx.fileId]}] ELSE d
RolledBack(d, tx) == d

UsernameOf(d, userId) == (CHOOSE u \in d.users : u.userId = userId).username

\* The rows the statement returns.  Upload: "new_post" join "new_file".
\* Edit: "posts" join "files" join "users" join "tag_arrays", where the
\* posts row is the snapshot's and "tags" is array_agg over "add_taggings"
\* (NULL over no rows).
ResultRows(d, tx) ==
    IF tx.op = "upload"
    THEN <<[postId |-> tx.postId, fileId |-> tx.fileId, userId |-> tx.userId,
            createdAt |-> tx.createdAt, title |-> tx.title,
            description |-> tx.description]>>
    ELSE IF tx.seen = {} THEN <<>>
    ELSE LET p == CHOOSE r \in tx.seen : TRUE
         IN <<[postId |-> p.postId, userId |-> p.userId, createdAt |-> p.createdAt,
               title |-> p.title, description |-> p.description,
               username |-> UsernameOf(d, p.userId),
               tags |-> IF tx.tags = <<>> THEN Undefined ELSE tx.tags]>>

\* The statement run to its end on store d: the store it leaves and what
\* db.query resolves or rejects with.
Finished(d, tx) ==
    IF StmtError(d, tx) = "none"
    THEN [db |-> Committed(d, tx), error |-> "none", rows |-> ResultRows(d, tx)]
    ELSE [db |-> RolledBack(d, tx), error |-> StmtError(d, tx), rows |-> <<>>]

\* int4 input of a text parameter: the value, or the error of the bind.
PgInt4Error(s) ==
    IF ~IsIntLiteral(s) THEN "invalid_text_representation"
    ELSE IF ~ToNumber(s).neg /\ ~NumLeq(ToNumber(s), MaxInt32Digits)
         THEN "numeric_value_out_of_range"
    ELSE IF ToNumber(s).neg /\ ~DigitsLeq(ToNumber(s).mag, MinInt32Digits)
         THEN "numeric_value_out_of_range"
    ELSE "none"

----------------------------------------------------------------------------
(* Requests and responses                                                  *)

\* What the client of a request gets: the kind of the response ("Ok",
\* "InvalidRequest" for 400, "NotFound" for 404, "Conflict" for 409,
\* "NoResponse" when the handler's promise rejects with nothing catching
\* it), whether db.query was called, and the payload; with it the request's
\* id parameter, for the write handlers the tags it carried, for the search
\* its q and cols.
Response(op, id, status, queried, error, body) ==
    [op |-> op, id |-> id, tags |-> Undefined, q |-> Undefined, cols |-> Undefined,
     status |-> status, queried |-> queried, error |-> error, body |-> body]

NoRequest == Response("none", Undefined, "none", FALSE, "none", <<>>)

\* if (Number.isNaN(Number(id))) throw 400;
\* if (!(id >= 1) || !(id <= 2147483647)) throw 400;
IdAccepted(rawId) ==
    /\ ~ToNumber(rawId).nan
    /\ NumGeq(ToNumber(rawId), <<"1">>)
    /\ NumLeq(ToNumber(rawId), MaxInt32Digits)

\* if (!req.body.description) description = '';
DescriptionOrEmpty(description) == IF Falsy(description) THEN <<>> ELSE description

\* The columns the read queries select (the asset's columns are carried
\* along unread and are left out).
Projected(d, p) ==
    [title |-> p.title, description |-> p.description,
     username |-> UsernameOf(d, p.userId), postId |-> p.postId,
     userId |-> p.userId, createdAt |-> p.createdAt,
     tags |-> TagArray(d.taggings, p.postId)]

\* "posts" join "files" join "users" join "tag_arrays": the posts that have
\* a row in each.
JoinedPosts(d) ==
    {p \in d.posts : /\ p.fileId \in FileIds(d)
                     /\ p.userId \in UserIds(d)
                     /\ p.postId \in TaggedPostIds(d)}

\* order by "createdAt" desc
RECURSIVE NewestFirst(_)
NewestFirst(ps) ==
    IF ps = {} THEN <<>>
    ELSE LET p == CHOOSE x \in ps : \A y \in ps : y.createdAt <= x.createdAt
         IN  <<p>> \o NewestFirst(ps \ {p})

\* The statement of a write handler run alone on the store, or cut short by
\* a failure of the store.
RunAlone(d, tx, fault) ==
    IF fault
    THEN [db |-> RolledBack(Started(d, tx), tx), error |-> "storage_error", rows |-> <<>>]
    ELSE Finished(Started(d, tx), AllUpserted(Started(d, tx), tx))

\* db.query(sql, params).then(reSQL => res.json(reSQL)), with no catch.
WriteResponse(op, id, rawTags, r) ==
    IF r.error = "none"
    THEN [Response(op, id, "Ok", TRUE, "none", r.rows) EXCEPT !.tags = rawTags]
    ELSE [Response(op, id, "NoResponse", TRUE, r.error, <<>>) EXCEPT !.tags = rawTags]

\* POST /api/upload.  auth is what the auth middleware left in req.userId.
UploadPost(auth, title, description, rawTags, fault) ==
    /\ db.postSeq < MaxPosts
    /\ LET userId == IF auth.anonymous THEN AnonymousUserId ELSE auth.userId
           tx == UploadStmt(db, userId, title, DescriptionOrEmpty(description),
                            UploadTags(rawTags))
           r  == RunAlone(db, tx, fault)
       IN  /\ db' = r.db
           /\ last' = WriteResponse("upload", Undefined, rawTags, r)
    /\ UNCHANGED <<conn, normIn, normOut>>

\* PUT /api/posts/edit/:id
EditPost(rawId, title, description, rawTags, fault) ==
    /\ IF PgInt4Error(rawId) # "none"
       THEN /\ last' = WriteResponse("edit", rawId, rawTags,
                                      [error |-> PgInt4Error(rawId), rows |-> <<>>])
            /\ db' = db
       ELSE LET tx == EditStmt(db, title, DescriptionOrEmpty(description),
                               IntLiteralValue(rawId), EditTags(rawTags))
                r  == RunAlone(db, tx, fault)
            IN  /\ db' = r.db
                /\ last' = WriteResponse("edit", rawId, rawTags, r)
    /\ UNCHANGED <<conn, normIn, normOut>>

\* POST /api/auth/sign-up: insert ... on conflict ("username") do nothing
\* returning; the sequence value is taken before the conflict is seen.
SignUp(username, password) ==
    /\ IF Falsy(username) \/ Falsy(password)
       THEN /\ last' = Response("sign-up", Undefined, "InvalidRequest", FALSE, "none", <<>>)
            /\ db' = db
       ELSE /\ db.userSeq < MaxUsers
            /\ IF \E u \in db.users : u.username = username
               THEN /\ db' = [db EXCEPT !.userSeq = @ + 1]
                    /\ last' = Response("sign-up", Undefined, "Conflict", TRUE, "none", <<>>)
               ELSE /\ db' = [db EXCEPT !.userSeq = @ + 1,
                                        !.users = @ \cup {[userId |-> db.userSeq + 1,
                                                           username |-> username]}]
                    /\ last' = Response("sign-up", Undefined, "Ok", TRUE, "none",
                                        <<[username |-> username, userId |-> db.userSeq + 1]>>)
    /\ UNCHANGED <<conn, normIn, normOut>>

\* GET /api/posts/view/:id
ViewPost(rawId) ==
    /\ IF ~IdAccepted(rawId)
       THEN last' = Response("view", rawId, "InvalidRequest", FALSE, "none", <<>>)
       ELSE LET rows == {p \in JoinedPosts(db) : p.postId = IntLiteralValue(rawId)}
            IN  IF rows = {}
                THEN last' = Response("view", rawId, "NotFound", TRUE, "none", <<>>)
                ELSE last' = Response("view", rawId, "Ok", TRUE, "none",
                                      <<Projected(db, CHOOSE p \in rows : TRUE)>>)
    /\ UNCHANGED <<db, conn, normIn, normOut>>

\* GET /api/catalog/user/:userId: "users" left join "jsonify"; json_agg is
\* NULL for a user with no row in "formatted_posts".  "posts" is a JSON
\* value: null, or the array in rows.
CatalogUser(rawId) ==
    /\ IF ~IdAccepted(rawId)
       THEN last' = Response("catalog-user", rawId, "InvalidRequest", FALSE, "none", <<>>)
       ELSE LET us == {u \in db.users : u.userId = IntLiteralValue(rawId)}
                ps == {p \in JoinedPosts(db) : p.userId = IntLiteralValue(rawId)}
                sorted == NewestFirst(ps)
            IN  IF us = {}
                THEN last' = Response("catalog-user", rawId, "NotFound", TRUE, "none", <<>>)
                ELSE last' = Response("catalog-user", rawId, "Ok", TRUE, "none",
                        <<[username |-> (CHOOSE u \in us : TRUE).username,
                           userId |-> IntLiteralValue(rawId),
                           posts |-> [null |-> ps = {},
                                      rows |-> [i \in 1..Len(sorted) |->
                                                   Projected(db, sorted[i])]]]>>)
    /\ UNCHANGED <<db, conn, normIn, normOut>>

\* GET /api/posts/download/:id: `!reSQL.rows` is false for every result, the
\* destructuring of an empty result throws inside then(), and nothing
\* catches it.
DownloadPost(rawId) ==
    /\ IF ~IdAccepted(rawId)
       THEN last' = Response("download", rawId, "InvalidRequest", FALSE, "none", <<>>)
       ELSE LET rows == {p \in db.posts : /\ p.postId = IntLiteralValue(rawId)
                                          /\ p.fileId \in FileIds(db)}
            IN  IF rows = {}
                THEN last' = Response("download", rawId, "NoResponse", TRUE, "TypeError", <<>>)
                ELSE last' = Response("download", rawId, "Ok", TRUE, "none",
                                      <<[fileId |-> (CHOOSE p \in rows : TRUE).fileId,
                                         title |-> (CHOOSE p \in rows : TRUE).title]>>)
    /\ UNCHANGED <<db, conn, normIn, normOut>>

\* The tag normalisation taken alone: nothing handed in, nothing computed.
NoInput == [kind |-> "none"]
NotRun == [done |-> FALSE]

----------------------------------------------------------------------------
(* The write path, one request at a time                                   *)

Auths == {[anonymous |-> TRUE], [anonymous |-> FALSE, userId |-> 2]}

Titles == {Undefined, <<"drake">>}

\* Comma-delimited tag fields of the upload form.
RawTagStrings == { <<"a", ",", "b">>, <<"a", ",", " ", "a", " ">> }

\* Tag arrays of the edit body.
RawTagArrays == { <<>>, << <<"b">>, <<"c">> >>, << <<"b">>, <<" ", "b">> >> }

EditIds == { <<"0">>, <<"a", "b", "c">>, <<"1">>, <<"2">> }

Usernames == {<<"admin">>, <<"rappy">>, <<>>}

Init ==
    /\ db = InitialStore
    /\ conn = [c \in Conns |-> Idle]
    /\ last = NoRequest
    /\ normIn = NoInput
    /\ normOut = NotRun

Next ==
    \/ \E auth \in Auths, title \in Titles, rawTags \in RawTagStrings, fault \in BOOLEAN :
          UploadPost(auth, title, Undefined, rawTags, fault)
    \/ \E rawId \in EditIds, rawTags \in RawTagArrays, fault \in BOOLEAN :
          EditPost(rawId, <<"rappy">>, <<"meme">>, rawTags, fault)
    \/ \E username \in Usernames : SignUp(username, <<"pw">>)

Spec == Init /\ [][Next]_vars

----------------------------------------------------------------------------
(* The write path with statements of several connections in flight.  Each  *)
(* request takes a connection of the pool; the store runs the statements   *)
(* concurrently (read committed: a statement sees what was committed when  *)
(* it started, its own rows, and nothing of a statement still in flight).  *)

InFlight(c) == conn[c].phase = "run"

\* The statement of c is at a tag name that a statement still in flight on
\* c2 has inserted: the unique index makes c wait for c2 to end.
WaitsFor(c, c2) ==
    /\ c # c2
    /\ InFlight(c) /\ InFlight(c2)
    /\ conn[c].error = "none"
    /\ conn[c].i <= Len(conn[c].tags)
    /\ conn[c].tags[conn[c].i] \notin TagNames(db) \cup conn[c].ins
    /\ conn[c].tags[conn[c].i] \in conn[c2].ins

\* What the connection holds once db.query has settled: the outcome, the
\* identities the statement took, and whether it had upserted all its tags.
Settled(tx, r) ==
    [ phase |-> "done", op |-> tx.op, error |-> r.error,
      postId |-> tx.postId, fileId |-> IF tx.op = "upload" THEN tx.fileId ELSE 0,
      upserted |-> tx.i > Len(tx.tags) ]

\* POST /api/upload up to db.query(sql, params)
SubmitUpload(c, auth, title, description, rawTags) ==
    /\ ~InFlight(c)
    /\ db.postSeq < MaxPosts
    /\ LET userId == IF auth.anonymous THEN AnonymousUserId ELSE auth.userId
           tx == UploadStmt(db, userId, title, DescriptionOrEmpty(description),
                            UploadTags(rawTags))
       IN  /\ conn' = [conn EXCEPT ![c] = tx]
           /\ db' = Started(db, tx)
    /\ UNCHANGED <<last, normIn, normOut>>

\* PUT /api/posts/edit/:id up to db.query(sql, params).  Two edits of one
\* post are not submitted at the same time.
SubmitEdit(c, rawId, title, description, rawTags) ==
    /\ ~InFlight(c)
    /\ PgInt4Error(rawId) = "none"
    /\ \A c2 \in Conns \ {c} :
          InFlight(c2) /\ conn[c2].op = "edit" => conn[c2].postId # IntLiteralValue(rawId)
    /\ conn' = [conn EXCEPT ![c] =
                  EditStmt(db, title, DescriptionOrEmpty(description),
                           IntLiteralValue(rawId), EditTags(rawTags))]
    /\ UNCHANGED <<db, last, normIn, normOut>>

\* "upsert_tags" inserts the next row of unnest(tags).
UpsertStep(c) ==
    /\ InFlight(c)
    /\ conn[c].error = "none"
    /\ conn[c].i <= Len(conn[c].tags)
    /\ \A c2 \in Conns : ~WaitsFor(c, c2)
    /\ conn' = [conn EXCEPT ![c] = AfterUpsert(db, conn[c])]
    /\ UNCHANGED <<db, last, normIn, normOut>>

\* The statement ends: its constraints are checked and it commits, or it
\* fails and is rolled back.
FinishStmt(c) ==
    /\ InFlight(c)
    /\ conn[c].i > Len(conn[c].tags) \/ conn[c].error # "none"
    /\ db' = Finished(db, conn[c]).db
    /\ conn' = [conn EXCEPT ![c] = Settled(conn[c], Finished(db, conn[c]))]
    /\ UNCHANGED <<last, normIn, normOut>>

\* The store fails the statement (connection lost, disk full, ...).
StorageError(c) ==
    /\ InFlight(c)
    /\ db' = RolledBack(db, conn[c])
    /\ conn' = [conn EXCEPT ![c] = Settled(conn[c], [error |-> "storage_error"])]
    /\ UNCHANGED <<last, normIn, normOut>>

\* Two statements wait for each other's tag rows: the store's deadlock
\* detector fails one of them.
DeadlockAbort(c) ==
    /\ \E c2 \in Conns : WaitsFor(c, c2) /\ WaitsFor(c2, c)
    /\ db' = RolledBack(db, conn[c])
    /\ conn' = [conn EXCEPT ![c] = Settled(conn[c], [error |-> "deadlock_detected"])]
    /\ UNCHANGED <<last, normIn, normOut>>

ConcTagStrings == { <<"a", ",", "b">>, <<"b", ",", "a">> }

ConcTagArrays == { <<>>, << <<"a">> >> }

ConcEditIds == { <<"1">>, <<"2">> }

NextConc ==
    \E c \in Conns :
        \/ \E auth \in Auths, rawTags \in ConcTagStrings :
              SubmitUpload(c, auth, <<"drake">>, Undefined, rawTags)
        \/ \E rawId \in ConcEditIds, rawTags \in ConcTagArrays :
              SubmitEdit(c, rawId, <<"rappy">>, Undefined, rawTags)
        \/ UpsertStep(c)
        \/ FinishStmt(c)
        \/ StorageError(c)
        \/ DeadlockAbort(c)

SpecConc == Init /\ [][NextConc]_vars

----------------------------------------------------------------------------
(* The read handlers that take an identity, over a small catalogue         *)

RawIds ==
    { <<"0">>, <<"-", "1">>, <<"a", "b", "c">>, <<"1">>, <<"2">>, <<"3">>,
      <<"2", "1", "4", "7", "4", "8", "3", "6", "4", "7">>,
      <<"2", "1", "4", "7", "4", "8", "3", "6", "4", "8">> }

NextRead ==
    \/ UploadPost([anonymous |-> TRUE], <<"drake">>, Undefined, <<"a", ",", "b">>, FALSE)
    \/ \E rawId \in RawIds : EditPost(rawId, <<"rappy">>, Undefined, <<>>, FALSE)
    \/ SignUp(<<"rappy">>, <<"pw">>)
    \/ \E rawId \in RawIds : ViewPost(rawId)
    \/ \E rawId \in RawIds : CatalogUser(rawId)
    \/ \E rawId \in RawIds : DownloadPost(rawId)

SpecRead == Init /\ [][NextRead]_vars

----------------------------------------------------------------------------
(* The listings                                                            *)

\* limit 20
PageLimit == 20

\* order by "createdAt"
RECURSIVE OldestFirst(_)
OldestFirst(ps) ==
    IF ps = {} THEN <<>>
    ELSE LET p == CHOOSE x \in ps : \A y \in ps : x.createdAt <= y.createdAt
         IN  <<p>> \o OldestFirst(ps \ {p})

\* offset $1: the text parameter read as an integer, which must not be
\* negative.
PgOffsetError(s) ==
    IF ~IsIntLiteral(s) THEN "invalid_text_representation"
    ELSE IF ToNumber(s).neg THEN "invalid_row_count_in_result_offset_clause"
    ELSE "none"

\* GET /api/catalog: db.query(sql).then(reSQL => res.json(reSQL.rows))
Catalog ==
    /\ LET sorted == NewestFirst(JoinedPosts(db))
       IN  last' = Response("catalog", Undefined, "Ok", TRUE, "none",
                            [i \in 1..Len(sorted) |-> Projected(db, sorted[i])])
    /\ UNCHANGED <<db, conn, normIn, normOut>>

\* GET /api/catalog/:offset: no validation of the parameter, no catch.
CatalogOffset(rawOffset) ==
    /\ IF PgOffsetError(rawOffset) # "none"
       THEN last' = Response("catalog-offset", rawOffset, "NoResponse", TRUE,
                             PgOffsetError(rawOffset), <<>>)
       ELSE LET sorted == OldestFirst(JoinedPosts(db))
                first == IntLiteralValue(rawOffset) + 1
                end == IF Len(sorted) < first + PageLimit - 1 THEN Len(sorted)
                       ELSE first + PageLimit - 1
            IN  last' = Response("catalog-offset", rawOffset, "Ok", TRUE, "none",
                                 [i \in 1..(IF end < first THEN 0 ELSE end - first + 1) |->
                                     Projected(db, sorted[first + i - 1])])
    /\ UNCHANGED <<db, conn, normIn, normOut>>

RawOffsets == { <<"0">>, <<"1">>, <<"2">>, <<"3">>, <<"-", "1">>, <<"a", "b", "c">> }

NextList ==
    \/ \E rawTags \in { <<"a">>, <<"a", ",", "b">> } :
          UploadPost([anonymous |-> TRUE], <<"drake">>, Undefined, rawTags, FALSE)
    \/ \E rawId \in { <<"1">>, <<"2">> }, rawTags \in { <<>>, << <<"b">> >> } :
          EditPost(rawId, <<"rappy">>, Undefined, rawTags, FALSE)
    \/ SignUp(<<"rappy">>, <<"pw">>)
    \/ Catalog
    \/ \E rawOffset \in RawOffsets : CatalogOffset(rawOffset)
    \/ \E rawId \in { <<"1">>, <<"2">>, <<"3">> } : ViewPost(rawId)
    \/ \E rawId \in { <<"1">>, <<"2">>, <<"3">> } : CatalogUser(rawId)

SpecList == Init /\ [][NextList]_vars

----------------------------------------------------------------------------
(* GET /api/posts/search                                                   *)

SearchFields == <<"title", "description", "tags", "username">>

\* columnsConfig: the fields columns.split(',') includes.
ColumnsConfig(cols) ==
    {SearchFields[k] : k \in {i \in 1..4 : Includes(Split(cols, ","), <<SearchFields[i]>>)}}

\* The three checks before the query: q, cols, and a columnsConfig with no
\* field set.
SearchRejectedMissingOnly(q, cols) == Falsy(q) \/ Falsy(cols)
SearchRejected(q, cols) ==
    \/ Falsy(q)
    \/ Falsy(cols)
    \/ ColumnsConfig(cols) = {}

\* The words of a text: the blocks between blanks.
Words(text) == SelectSeq(Split(text, " "), LAMBDA w : w # <<>>)

\* array_to_string(array_agg("tagName"), ' ')
RECURSIVE JoinWith(_, _)
JoinWith(strs, sep) ==
    IF strs = <<>> THEN <<>>
    ELSE IF Len(strs) = 1 THEN strs[1]
    ELSE strs[1] \o <<sep>> \o JoinWith(Tail(strs), sep)

\* setweight(to_tsvector(text), tier): the words of the text with their
\* positions, each carrying the tier.  (Stemming and stop words are left
\* out: a word is its own lexeme.)
WeightedVector(text, tier) ==
    [i \in 1..Len(Words(text)) |-> [lexeme |-> Words(text)[i], tier |-> tier]]

\* The text of one search field of a post of "posts_with_tags".
FieldText(d, p, field) ==
    CASE field = "title" -> p.title
      [] field = "description" -> p.description
      [] field = "tags" -> JoinWith(TagArray(d.taggings, p.postId), " ")
      [] field = "username" -> UsernameOf(d, p.userId)

TierOf(field) ==
    CASE field = "title" -> "A"
      [] field = "description" -> "B"
      [] field = "tags" -> "C"
      [] field = "username" -> "D"

\* "weights": the vectors of the enabled fields, concatenated in the order
\* title, description, tags, username.
RECURSIVE WeightsFrom(_, _, _, _)
WeightsFrom(d, p, config, k) ==
    IF k > 4 THEN <<>>
    ELSE (IF SearchFields[k] \in config
          THEN WeightedVector(FieldText(d, p, SearchFields[k]), TierOf(SearchFields[k]))
          ELSE <<>>)
         \o WeightsFrom(d, p, config, k + 1)

\* The weight ts_rank gives a tier, in thousandths.
TierWeight(tier) ==
    CASE tier = "A" -> 1000 [] tier = "B" -> 400 [] tier = "C" -> 200 [] tier = "D" -> 100

RECURSIVE SumOverOccurrences(_, _)
SumOverOccurrences(occ, j) ==
    IF occ = <<>> THEN 0
    ELSE TierWeight(Head(occ).tier) \div (j * j) + SumOverOccurrences(Tail(occ), j + 1)

\* ts_rank("weights", plainto_tsquery(q)) for a query of one word, in
\* thousandths: over the occurrences of the word, the sum of weight / j^2
\* with the largest weight counted at full, scaled by 6 / pi^2.
RankOf(weights, q) ==
    LET occ == SelectSeq(weights, LAMBDA e : <<e.lexeme>> = Words(q))
        jm == CHOOSE j \in 1..Len(occ) :
                 \A k \in 1..Len(occ) : TierWeight(occ[k].tier) <= TierWeight(occ[j].tier)
    IN  IF occ = <<>> THEN 0
        ELSE ((TierWeight(occ[jm].tier) + SumOverOccurrences(occ, 1)
                 - TierWeight(occ[jm].tier) \div (jm * jm)) * 1000) \div 1645

\* where "ranks" > 0.01, in thousandths.
RankThreshold == 10

\* limit 20
SearchLimit == 20

\* "posts_with_tags": "posts" join "users" join "tag_arrays".
PostsWithTags(d) ==
    {p \in d.posts : p.userId \in UserIds(d) /\ p.postId \in TaggedPostIds(d)}

\* The rows of the search before order by and limit: the posts of
\* "search_ranking" above the threshold, joined with "posts", "files",
\* "users" and "tag_arrays".
SearchHits(d, q, config) ==
    {[postId |-> p.postId, ranks |-> RankOf(WeightsFrom(d, p, config, 1), q)] :
        p \in {x \in PostsWithTags(d) \cap JoinedPosts(d) :
                  RankOf(WeightsFrom(d, x, config, 1), q) > RankThreshold}}

\* order by "ranks" desc limit 20: any order of the hits that does not
\* put a lower rank first, cut to the limit.
RankedPages(hits) ==
    {SubSeq(page, 1, IF Len(page) < SearchLimit THEN Len(page) ELSE SearchLimit) :
        page \in {f \in [1..Cardinality(hits) -> hits] :
                     /\ \A i, j \in 1..Cardinality(hits) : i # j => f[i] # f[j]
                     /\ \A i, j \in 1..Cardinality(hits) : i < j => f[i].ranks >= f[j].ranks}}

SearchResponse(q, cols, status, queried, body) ==
    [Response("search", Undefined, status, queried, "none", body)
        EXCEPT !.q = q, !.cols = cols]

Search(q, cols) ==
    /\ IF SearchRejected(q, cols)
       THEN last' = SearchResponse(q, cols, "InvalidRequest", FALSE, <<>>)
       ELSE \E page \in RankedPages(SearchHits(db, q, ColumnsConfig(cols))) :
               last' = SearchResponse(q, cols, "Ok", TRUE,
                          [i \in 1..Len(page) |->
                              [row |-> Projected(db, PostById(db, page[i].postId)),
                               ranks |-> page[i].ranks]])
    /\ UNCHANGED <<db, conn, normIn, normOut>>

\* The cols parameter naming the fields of a set, in the order of
\* SearchFields.
ColsNaming(fields) ==
    JoinWith(SelectSeq([i \in 1..4 |-> <<SearchFields[i]>>], LAMBDA f : f[1] \in fields), ",")

ColsInputs ==
    {ColsNaming(fields) : fields \in SUBSET {"title", "description", "tags", "username"}}
    \cup {Undefined, <<"rank">>, <<"title", " ">>}

QueryInputs == {Undefined, <<>>, <<"drake">>}

NextSearch ==
    \/ UploadPost([anonymous |-> TRUE], <<"drake">>, Undefined, <<"a">>, FALSE)
    \/ \E title \in {<<"drake">>, <<"rappy">>},
          description \in {Undefined, <<"drake">>},
          rawTags \in { <<>>, << <<"a">> >>, << <<"drake">> >> } :
          EditPost(<<"1">>, title, description, rawTags, FALSE)
    \/ \E q \in QueryInputs, cols \in ColsInputs : Search(q, cols)

SpecSearch == Init /\ [][NextSearch]_vars

----------------------------------------------------------------------------
(* The tag normalisation of the two write handlers, taken alone            *)

\* Bounds: the length of a raw tag field, of one element of a tag array,
\* and of a tag array.
MaxRawLen == 3
MaxElemLen == 2
MaxArrayLen == 2

SeqsUpTo(S, n) == UNION {[1..k -> S] : k \in 0..n}

\* The example of the specification: "pso2, pso2 , meme,  ".
ExampleTagField ==
    <<"pso2", ",", " ", "pso2", " ", ",", " ", "meme", ",", " ", " ">>

TagFieldInputs == SeqsUpTo({"pso2", "meme", " ", ","}, MaxRawLen) \cup {ExampleTagField}

TagArrayInputs == SeqsUpTo(SeqsUpTo({"pso2", " "}, MaxElemLen), MaxArrayLen)

InitNorm ==
    /\ db = InitialStore
    /\ conn = [c \in Conns |-> Idle]
    /\ last = NoRequest
    /\ normIn \in [kind : {"upload"}, raw : TagFieldInputs]
                  \cup [kind : {"edit"}, raw : TagArrayInputs]
    /\ normOut = NotRun

NormalizeUpload ==
    /\ normIn.kind = "upload" /\ ~normOut.done
    /\ normOut' = [done |-> TRUE, tags |-> UploadTags(normIn.raw)]
    /\ UNCHANGED <<db, conn, last, normIn>>

NormalizeEdit ==
    /\ normIn.kind = "edit" /\ ~normOut.done
    /\ normOut' = [done |-> TRUE, tags |-> EditTags(normIn.raw)]
    /\ UNCHANGED <<db, conn, last, normIn>>

NextNorm == NormalizeUpload \/ NormalizeEdit

SpecNorm == InitNorm /\ [][NextNorm]_vars

----------------------------------------------------------------------------
(* Properties                                                              *)

Range(seq) == {seq[i] : i \in 1..Len(seq)}

Count(seq, x) == Cardinality({i \in 1..Len(seq) : seq[i] = x})

\* The four tables, without the sequences and the clock.
Tables(d) == <<d.files, d.posts, d.tags, d.taggings>>

\* No row of the upload statement tx is in store d.
NothingOf(d, tx) ==
    /\ tx.fileId \notin FileIds(d)
    /\ tx.postId \notin PostIds(d)
    /\ \A i \in 1..Len(d.taggings) : d.taggings[i].postId # tx.postId

\* Every row of the upload statement tx is in store d.
AllOf(d, tx) ==
    /\ [fileId |-> tx.fileId] \in d.files
    /\ \E p \in d.posts : p.postId = tx.postId /\ p.fileId = tx.fileId
    /\ TagArray(d.taggings, tx.postId) = tx.tags
    /\ Range(tx.tags) \subseteq TagNames(d)

C1_NothingVisible ==
    \A c \in Conns :
        /\ conn[c].phase \in {"run", "done"}
        /\ conn[c].op = "upload"
        /\ conn[c].phase = "run" \/ conn[c].error # "none"
        => NothingOf(db, conn[c])

C1_Step ==
    \A c \in Conns :
        InFlight(c) /\ conn[c].op = "upload" /\ conn'[c].phase = "done" =>
            IF conn'[c].error # "none"
            THEN Tables(db') = Tables(db) /\ Cardinality(db'.posts) = Cardinality(db.posts)
            ELSE AllOf(db', conn[c])

\* C1: create post is all-or-nothing.  While an upload statement is in
\* flight, and after it has failed (a constraint violation, a failure of the
\* store at any step, also after its tags were upserted), the store shows no
\* asset, post or tagging row of it; the step on which it fails leaves the
\* four tables as they were; the step on which it succeeds shows all of its
\* rows at once.
C1_CreateAllOrNothing == [](C1_NothingVisible) /\ [][C1_Step]_vars

\* An upload failed by the store after it had upserted all its tags, with
\* another post already in the catalogue.
C1_Witness ==
    \E c \in Conns :
        /\ conn[c].phase = "done" /\ conn[c].op = "upload"
        /\ conn[c].error = "storage_error" /\ conn[c].upserted
        /\ db.posts # {}

C4_NoDuplicateNoFailure ==
    /\ \A n \in BagToSet(db.tags) : CopiesIn(n, db.tags) = 1
    /\ \A c \in Conns :
          conn[c].phase \in {"run", "done"} => conn[c].error # "unique_violation"

C4_Step == \A n \in BagToSet(db.tags) : CopiesIn(n, db'.tags) = CopiesIn(n, db.tags)

\* C4: the tag upsert is idempotent and race-safe.  Under every
\* interleaving of upload and edit statements the tag vocabulary holds each
\* name once, a name that is in it stays as it is, and no statement fails
\* with a uniqueness error on a tag name.
C4_TagUpsertRaceSafe == [](C4_NoDuplicateNoFailure) /\ [][C4_Step]_vars

\* Two writers with the same tag name: one has inserted it and is still in
\* flight, the other is at that name.
C4_Witness == \E c, c2 \in Conns : WaitsFor(c, c2)

\* The names the normalizer of the specification hands on for a tag array:
\* trimmed, the empty ones dropped.
NormalizedNames(rawTags) == {Trim(rawTags[i]) : i \in 1..Len(rawTags)} \ {<<>>}

\* The response in `last` is that of an edit that succeeded on a post that
\* existed.
EditedExisting(r) == r.op = "edit" /\ r.status = "Ok" /\ r.body # <<>>

C2_Step ==
    EditedExisting(last') =>
        LET P == IntLiteralValue(last'.id)
            before == Range(TagArray(db.taggings, P))
            after == TagArray(db'.taggings, P)
        IN  /\ Range(after) = NormalizedNames(last'.tags)
            /\ \A n \in before \ NormalizedNames(last'.tags) : n \notin Range(after)
            /\ \A n \in before \cap Range(after) : Count(after, n) = 1

\* C2: edit replaces tags wholesale.  After a successful edit of an
\* existing post P with tag list T the names associated with P are exactly
\* the normalized names of T, the names P had that are not in T are gone,
\* and a name P had before and has after has one tagging row.
C2_EditReplacesTags == [][C2_Step]_vars

\* C3: no post has two tagging rows with the same tag name.
C3_TagsUniquePerPost ==
    \A p \in db.posts :
        \A n \in Range(TagArray(db.taggings, p.postId)) :
            Count(TagArray(db.taggings, p.postId), n) = 1

\* C5: referential integrity.  Every tagging row references a tag and a
\* post that are in the store, every post references exactly one asset row
\* and exactly one user row that are in the store; this holds of every state
\* the store shows, so a tagging row is never shown before its tag.
C5_ReferentialIntegrity ==
    /\ \A i \in 1..Len(db.taggings) :
          /\ db.taggings[i].tagName \in TagNames(db)
          /\ db.taggings[i].postId \in PostIds(db)
    /\ \A p \in db.posts :
          /\ Cardinality({f \in db.files : f.fileId = p.fileId}) = 1
          /\ Cardinality({u \in db.users : u.userId = p.userId}) = 1

\* An edit with tags of a post that does not exist has just failed on the
\* foreign key, an upload by a signed-up user and taggings are in the store.
C5_Witness ==
    /\ last.op = "edit" /\ last.error = "foreign_key_violation"
    /\ db.taggings # <<>>
    /\ \E p \in db.posts : p.userId # AnonymousUserId

\* The request in `last` is an edit of a well-formed identity that matches
\* no post, and the store did not fail under it.
EditedMissing(r) ==
    /\ r.op = "edit"
    /\ IdAccepted(r.id)
    /\ IntLiteralValue(r.id) \notin PostIds(db)
    /\ r.error # "storage_error"

\* C10: an edit of a post identity that does not exist signals not-found,
\* for every tag list.
C10_EditMissingIsNotFound == EditedMissing(last) => last.status = "NotFound"

\* The identity is a decimal number in [1, 2147483647].
WellFormedId(rawId) ==
    /\ IsIntLiteral(rawId)
    /\ Head(rawId) # "-"
    /\ StripZeros(rawId) # <<"0">>
    /\ DigitsLeq(StripZeros(rawId), MaxInt32Digits)

\* C9: identity bounds.  Get post, list posts by owner, download post asset
\* and edit post reject an identity that is not a number in
\* [1, 2147483647] as InvalidRequest, without a store query.
C9_IdentityBounds ==
    /\ last.op \in {"view", "catalog-user", "download", "edit"}
    /\ ~WellFormedId(last.id)
    => last.status = "InvalidRequest" /\ ~last.queried

\* The entries of a raw tag input, before any normalisation.
RawEntries(in) == IF in.kind = "upload" THEN Split(in.raw, ",") ELSE in.raw

\* Trimmed, the empty ones dropped, each kept at its first occurrence.
RECURSIVE FirstOccurrences(_, _)
FirstOccurrences(entries, seen) ==
    IF entries = <<>> THEN <<>>
    ELSE IF Trim(Head(entries)) = <<>> \/ Trim(Head(entries)) \in seen
         THEN FirstOccurrences(Tail(entries), seen)
    ELSE <<Trim(Head(entries))>>
         \o FirstOccurrences(Tail(entries), seen \cup {Trim(Head(entries))})

\* C6: the tag normalizer.  The tag names handed to the write path have no
\* duplicate and no empty entry, each is trimmed, and they are the entries
\* of the input in order of first occurrence; the example of the
\* specification yields [pso2, meme] and empty input yields the empty
\* sequence.
C6_TagNormalizer ==
    normOut.done =>
        /\ \A i, j \in 1..Len(normOut.tags) : i # j => normOut.tags[i] # normOut.tags[j]
        /\ \A i \in 1..Len(normOut.tags) :
              normOut.tags[i] # <<>> /\ Trim(normOut.tags[i]) = normOut.tags[i]
        /\ normOut.tags = FirstOccurrences(RawEntries(normIn), {})
        /\ normIn.raw = ExampleTagField => normOut.tags = << <<"pso2">>, <<"meme">> >>
        /\ normIn.raw = <<>> => normOut.tags = <<>>

----------------------------------------------------------------------------
(* Search                                                                  *)

\* The store with one field of one post given other contents: a title or
\* description text, the owner's username, or a sequence of tag names.
WithFieldContents(d, postId, field, contents) ==
    CASE field = "title" ->
           [d EXCEPT !.posts = {IF p.postId = postId THEN [p EXCEPT !.title = contents] ELSE p
                                   : p \in d.posts}]
      [] field = "description" ->
           [d EXCEPT !.posts = {IF p.postId = postId THEN [p EXCEPT !.description = contents]
                                   ELSE p : p \in d.posts}]
      [] field = "username" ->
           [d EXCEPT !.users = {IF u.userId = PostById(d, postId).userId
                                   THEN [u EXCEPT !.username = contents] ELSE u : u \in d.users}]
      [] field = "tags" ->
           [d EXCEPT !.taggings =
               SelectSeq(d.taggings, LAMBDA t : t.postId # postId)
               \o [i \in 1..Len(contents) |-> [tagName |-> contents[i], postId |-> postId]]]

AlternativeContents(field) ==
    IF field = "tags" THEN { <<>>, << <<"drake">> >>, << <<"a">> >> }
    ELSE { <<"drake">>, <<"rappy">> }

NonEmptyConfigs == (SUBSET {"title", "description", "tags", "username"}) \ {{}}

\* C7: for every query text and every non-empty set of enabled fields, the
\* posts found and their ranks are the same in any store that differs from
\* this one only in the contents of a disabled field of a post, and every
\* post found has the query's word in an enabled field.
C7_SearchFieldIsolation ==
    \A config \in NonEmptyConfigs :
        /\ \A p \in db.posts, field \in {"title", "description", "tags", "username"} \ config :
              \A contents \in AlternativeContents(field) :
                  SearchHits(WithFieldContents(db, p.postId, field, contents), <<"drake">>, config)
                     = SearchHits(db, <<"drake">>, config)
        /\ \A h \in SearchHits(db, <<"drake">>, config) :
              \E field \in config :
                  \E i \in 1..Len(Words(FieldText(db, PostById(db, h.postId), field))) :
                      Words(FieldText(db, PostById(db, h.postId), field))[i] = <<"drake">>

\* cols names the field: the field stands between two commas or ends of cols.
Names(cols, field) ==
    \E i \in 1..Len(cols) :
        /\ cols[i] = field
        /\ i = 1 \/ cols[i - 1] = ","
        /\ i = Len(cols) \/ cols[i + 1] = ","

NamesNoField(cols) ==
    \A field \in {"title", "description", "tags", "username"} : ~Names(cols, field)

\* C8: a search without query text, without cols, or with cols naming none
\* of the four fields is answered InvalidRequest with no query sent to the
\* store; every other search, so every non-empty combination of the four
\* fields with a query text, is accepted and queries the store.
C8_SearchValidationPrecedesStore ==
    last.op = "search" =>
        IF last.q \in {Undefined, <<>>} \/ last.cols \in {Undefined, <<>>}
              \/ NamesNoField(last.cols)
        THEN last.status = "InvalidRequest" /\ ~last.queried
        ELSE last.status = "Ok" /\ last.queried

\* A search with a query text whose cols names none of the four fields has
\* been answered, with a post in the catalogue that has the query's word.
C8_Witness ==
    /\ last.op = "search"
    /\ last.q = <<"drake">>
    /\ last.cols = <<"rank">>
    /\ \E p \in db.posts : p.title = <<"drake">>

----------------------------------------------------------------------------
(* Reads                                                                   *)

\* The row of post p in a sequence of rows carries p's tags, the empty
\* sequence for a post without taggings.
ShownIn(rows, p) ==
    \E i \in 1..Len(rows) :
        /\ rows[i].postId = p.postId
        /\ rows[i].tags = TagArray(db.taggings, p.postId)

\* The request in `last` is a read of this kind that the store answered.
Answered(op) == last.op = op /\ last.queried /\ last.error = "none"

\* C11: the tag aggregator keeps untagged posts.  In the unpaged listing,
\* the offset listing (from offset 0, the catalogue fitting one page), get
\* post and the listing by owner, every post that exists is shown with its
\* tag sequence, the empty one for a post with no taggings, and get post
\* of an existing post is not answered not-found.
C11_UntaggedPostsKept ==
    /\ Answered("catalog") => \A p \in db.posts : ShownIn(last.body, p)
    /\ Answered("catalog-offset") /\ last.id = <<"0">> /\ Cardinality(db.posts) <= PageLimit
          => \A p \in db.posts : ShownIn(last.body, p)
    /\ Answered("view") /\ IntLiteralValue(last.id) \in PostIds(db)
          => /\ last.status = "Ok"
             /\ ShownIn(last.body, PostById(db, IntLiteralValue(last.id)))
    /\ Answered("catalog-user") /\ last.status = "Ok"
          => \A p \in db.posts :
                p.userId = IntLiteralValue(last.id) => ShownIn(last.body[1].posts.rows, p)

\* The post identities of a sequence of rows, in order.
IdsOf(rows) == [i \in 1..Len(rows) |-> rows[i].postId]

\* Positions first .. first + n - 1 of a sequence, as far as it goes.
Page(seq, first, n) ==
    [i \in 1..(IF Len(seq) < first THEN 0
               ELSE IF Len(seq) < first + n - 1 THEN Len(seq) - first + 1
               ELSE n) |-> seq[first + i - 1]]

\* C12: the offset listing.  For an offset that is a natural number the
\* paged listing answers with at most 20 rows, the posts at positions
\* offset .. offset + 19 of all posts oldest first, the empty sequence for
\* an offset at or beyond the number of posts; the unpaged listing answers
\* with all posts newest first.
C12_OffsetListing ==
    /\ last.op = "catalog-offset" /\ IsIntLiteral(last.id) /\ ~ToNumber(last.id).neg
          => /\ last.status = "Ok"
             /\ Len(last.body) <= 20
             /\ IdsOf(last.body)
                   = Page(IdsOf(OldestFirst(db.posts)), IntLiteralValue(last.id) + 1, 20)
             /\ IntLiteralValue(last.id) >= Cardinality(db.posts) => last.body = <<>>
    /\ last.op = "catalog"
          => /\ last.status = "Ok"
             /\ IdsOf(last.body) = IdsOf(NewestFirst(db.posts))

\* C13: listing by owner.  For a well-formed user identity that matches no
\* user the answer is not-found; for an existing user it is the user's
\* username and identity with all the user's posts newest first, and the
\* post list of a user without posts is the empty list, not null.
C13_ListingByOwner ==
    last.op = "catalog-user" /\ WellFormedId(last.id) =>
        IF IntLiteralValue(last.id) \notin UserIds(db)
        THEN last.status = "NotFound"
        ELSE /\ last.status = "Ok"
             /\ last.body[1].username = UsernameOf(db, IntLiteralValue(last.id))
             /\ last.body[1].userId = IntLiteralValue(last.id)
             /\ ~last.body[1].posts.null
             /\ IdsOf(last.body[1].posts.rows)
                   = IdsOf(NewestFirst({p \in db.posts : p.userId = IntLiteralValue(last.id)}))

\* C14: download post asset for a well-formed post identity that matches no
\* post answers the caller not-found; the request is not left without a
\* response.
C14_DownloadMissingIsNotFound ==
    /\ last.op = "download"
    /\ WellFormedId(last.id)
    /\ IntLiteralValue(last.id) \notin PostIds(db)
    => last.status = "NotFound"

\* C15: a failure of the store under create post or edit post surfaces.
\* When the query of the request failed (a constraint violation, a rejected
\* parameter or a storage error) the caller has an error response of kind
\* StorageFailure.
C15_StoreFailuresSurface ==
    last.op \in {"upload", "edit"} /\ last.error # "none" => last.status = "StorageFailure"

----------------------------------------------------------------------------
(* Edit                                                                    *)

\* The post an edit request names, 0 (no post) when the store rejects the
\* identity.
EditedId(r) == IF PgInt4Error(r.id) = "none" THEN IntLiteralValue(r.id) ELSE 0

C16_Step ==
    last'.op = "edit" =>
        /\ db'.files = db.files
        /\ db'.users = db.users
        /\ PostIds(db') = PostIds(db)
        /\ \A p \in db.posts :
              /\ PostById(db', p.postId).fileId = p.fileId
              /\ PostById(db', p.postId).userId = p.userId
              /\ PostById(db', p.postId).createdAt = p.createdAt
              /\ p.postId # EditedId(last') =>
                    /\ PostById(db', p.postId) = p
                    /\ TagArray(db'.taggings, p.postId) = TagArray(db.taggings, p.postId)
        /\ db.tags \sqsubseteq db'.tags

\* C16: the frame of edit.  An edit of post P leaves P's asset reference,
\* user reference and creation time, every asset row, every user row, and
\* the title, description and taggings of every other post as they were;
\* the tag vocabulary only gains names.
C16_EditFrame == [][C16_Step]_vars

\* An edit of an existing post has succeeded while another post with
\* taggings of its own is in the catalogue.
C16_Witness ==
    /\ EditedExisting(last)
    /\ PostById(db, EditedId(last)).title = <<"rappy">>
    /\ \E p \in db.posts :
          p.postId # EditedId(last) /\ TagArray(db.taggings, p.postId) # <<>>

\* C17: edit returns the updated post detail.  The row a successful edit
\* of an existing post P returns carries the title, description and tag
\* sequence P has after the edit, those get post returns next, also when
\* the new tag list is empty.
C17_EditReturnsUpdatedDetail ==
    EditedExisting(last) =>
        /\ last.body[1].title = PostById(db, EditedId(last)).title
        /\ last.body[1].description = PostById(db, EditedId(last)).description
        /\ last.body[1].tags = TagArray(db.taggings, EditedId(last))

====
